---------------------------- MODULE Spec2Model ----------------------------
(***************************************************************************)
(* A model of auto-issue-runner: the single-instance process lock          *)
(* (src/src/lock.js), the cycle orchestrator (src/src/runner.js), the       *)
(* process entry point with its signal handlers (index.js), the agent       *)
(* invoker (claude.js; both found in src/unnamed/part_000), the remote API  *)
(* gateway (src/src/github.js) and the issue selector (src/src/issues.js).  *)
(*                                                                         *)
(* Specifications:                                                         *)
(*   SpecLock      two live processes calling acquire()/release() on the   *)
(*                 same lock file, interleaved at file steps;              *)
(*   Spec          one runner process: start(), the polling timer and      *)
(*                 runCycle;                                               *)
(*   SpecShutdown  the same with a SIGINT/SIGTERM delivered at any moment; *)
(*   SpecRetry     two callers of GitHubClient.withRetry, with a clock;    *)
(*   SpecAgent     runCycle with the agent subprocess of each attempt;     *)
(*   SpecAgentLive the same with weak fairness of every cycle's steps;     *)
(*   SpecSelect    two callers of IssueSelector.findEligibleIssue;        *)
(*   SpecEffects   runCycle step by step with the effects of every call   *)
(*                 on the working tree and the remote repository;         *)
(*   SpecBranch    generateBranchName applied to issue numbers and        *)
(*                 titles, and the selector's pattern applied to the name.*)
(***************************************************************************)
EXTENDS Naturals, Sequences, FiniteSets, TLC

VARIABLES
    file,          \* content of .auto-runner.lock: decimal digits, << >> when absent
    lockAcquired,  \* ProcessLock.lockAcquired of each process's lock object
    lpc,           \* position of each calling context inside acquire()/release()
    existingPid,   \* acquire()'s local existingPid of each context
    lastOp,        \* what each context's current/last lock call did (history)
    nops,          \* lock calls made so far by each context (SpecLock)
    faults,        \* non-ENOENT I/O errors raised so far
    mpc,           \* position of main() / AutoIssueRunner.start()
    exit,          \* "running", or the process's exit status "exit0" / "exit1"
    isRunning,     \* AutoIssueRunner.isRunning
    timer,         \* the setInterval of startPolling is armed
    sig,           \* the shutdown signal received: "none", "SIGINT", "SIGTERM"
    sigAt,         \* the runCycle invocations in flight when it arrived (history)
    hpc,           \* position of the index.js and of the lock.js signal listener
    cyc,           \* each runCycle invocation's position and locals
    result,        \* each runCycle invocation's result object
    cycleResults,  \* AutoIssueRunner.cycleResults: references to result objects
    ncyc,          \* runCycle invocations started so far
    promptFile,    \* issue_prompt.md exists in the working directory
    promptTracked, \* issue_prompt.md is part of the last commit made
    promptIgnored, \* the repository's .gitignore covers issue_prompt.md
    dirty,         \* the working tree has uncommitted changes (prompt file aside)
    now,           \* Date.now(), in ms since the GitHubClient was constructed
    lastRequestTime, \* GitHubClient.lastRequestTime
    wr,            \* each caller's position and locals inside withRetry()
    prevInvokeAt,  \* when the last remote operation was invoked (history)
    minGap,        \* smallest time between two successive invocations (history)
    child,         \* the agent subprocess of each attempt of each cycle
    ag,            \* each cycle's invokeClaude call: attempts and their errors (history)
    sel,           \* each findEligibleIssue caller's position and locals
    processedIssues, \* IssueSelector.processedIssues
    selections,    \* the issue numbers selected so far, in order (history)
    ec,            \* SpecEffects: the running cycle, its result and what it did
    wt,            \* SpecEffects: the working tree; stale: changes of earlier cycles
    hist,          \* SpecEffects: the records passed to logCycleResult, in order
    ecount,        \* SpecEffects: runCycle invocations started so far
    commands,      \* SpecEffects: CONFIG.commands: which commands are configured
    bn             \* SpecBranch: an issue, its branch name and the pattern's match

lockVars == <<file, lockAcquired, lpc, existingPid, lastOp, faults>>

procVars == <<mpc, exit, isRunning, timer, sig, sigAt, hpc>>

cycVars == <<cyc, result, cycleResults, ncyc>>

treeVars == <<promptFile, promptTracked, promptIgnored, dirty>>

runnerVars == <<procVars, cycVars, treeVars>>

retryVars == <<now, lastRequestTime, wr, prevInvokeAt, minGap>>

agentVars == <<child, ag>>

selVars == <<sel, processedIssues, selections>>

effVars == <<ec, wt, hist, ecount, commands>>

auxVars == <<retryVars, agentVars, selVars, effVars, bn>>

vars == <<lockVars, nops, runnerVars, auxVars>>

----------------------------------------------------------------------------
(* Bounds *)

MaxOps == 3      \* lock calls per process in SpecLock
MaxFaults == 1   \* injected non-ENOENT I/O errors
MaxCycles == 3   \* runCycle invocations of one process lifetime (Spec)
MaxShutdownCycles == 2  \* the same, in runs that receive a signal (SpecShutdown)
MaxIssues == 1   \* issue numbers the selector may return
MaxTime == 8000  \* ms of clock time followed in SpecRetry
MaxAgentCycles == 2  \* runCycle invocations in SpecAgent
MaxIssueNum == 2     \* issue numbers the search may list (SpecSelect)
MaxSelectCalls == 2  \* findEligibleIssue calls per caller (SpecSelect)
MaxEffectCycles == 2 \* runCycle invocations, one after the other (SpecEffects)
MaxBranchIssue == 11 \* issue numbers given to generateBranchName (SpecBranch)
MaxAffix == 2        \* characters before and after a title's run of letters

----------------------------------------------------------------------------
(* lock.js *)

\* Calling contexts of the lock's methods.  "p1" and "p2" are the main flows
\* of two processes; "h1" and "h2" are the two signal listeners of process p1.
Ctx == {"p1", "p2", "h1", "h2"}
Procs == {"p1", "p2"}
ProcOf == [p1 |-> "p1", p2 |-> "p2", h1 |-> "p1", h2 |-> "p1"]

\* this.pid = process.pid
PidOf == [p1 |-> 11, p2 |-> 12]
StalePids == {7}
\* the processes the OS reports as existing
AlivePids == {PidOf[p] : p \in Procs}

Absent == << >>

\* this.pid.toString(): the decimal digits of a positive integer
RECURSIVE ToStr(_)
ToStr(n) == IF n < 10 THEN <<n>> ELSE ToStr(n \div 10) \o <<n % 10>>

\* parseInt(lockData.trim(), 10) on a string of decimal digits
RECURSIVE ParseInt(_)
ParseInt(s) ==
    IF Len(s) = 0 THEN 0
    ELSE 10 * ParseInt(SubSeq(s, 1, Len(s) - 1)) + s[Len(s)]

\* mutants of the liveness probe: every PID reported dead / reported alive
MutIsProcessRunningNever(pid) == FALSE

MutIsProcessRunningAlways(pid) == TRUE

\* isProcessRunning(pid): process.kill(pid, 0) does not throw
IsProcessRunning(pid) == pid \in AlivePids

NoOp ==
    [op |-> "none", result |-> "none", err |-> "none", errPid |-> 0,
     held |-> FALSE, fileAtCall |-> Absent, touched |-> FALSE,
     fault |-> FALSE, deleted |-> Absent, read |-> Absent,
     prevOp |-> "none", prevErr |-> "none", prevDeleted |-> Absent]

\* a fresh history record for a call of `op` by context c
NewOp(c, op) ==
    [NoOp EXCEPT !.op = op, !.result = "running",
                 !.held = lockAcquired[ProcOf[c]], !.fileAtCall = file,
                 !.prevOp = lastOp[c].op, !.prevErr = lastOp[c].err,
                 !.prevDeleted = lastOp[c].deleted]

CanFault == faults < MaxFaults

\* acquire() is entered: nothing happens before the first await
AcquireCall(c) ==
    /\ lpc[c] = "idle"
    /\ lpc' = [lpc EXCEPT ![c] = "read"]
    /\ lastOp' = [lastOp EXCEPT ![c] = NewOp(c, "acquire")]
    /\ UNCHANGED <<file, lockAcquired, existingPid, faults>>

\* the mutually exclusive outcomes of a throw out of acquire()
Throw(c, e, pid, isFault) ==
    /\ lpc' = [lpc EXCEPT ![c] = "idle"]
    /\ lastOp' = [lastOp EXCEPT ![c].result = "threw", ![c].err = e,
                                ![c].errPid = pid,
                                ![c].fault = @ \/ isFault]

\* const lockData = await fs.readFile(LOCK_PATH, 'utf8')
AcqRead(c) ==
    /\ lpc[c] = "read"
    /\ \/ /\ CanFault                       \* e.g. EACCES: rethrown by the catch
          /\ faults' = faults + 1
          /\ Throw(c, "EIO", 0, TRUE)
          /\ UNCHANGED <<file, lockAcquired, existingPid>>
       \/ /\ file = Absent                  \* ENOENT: swallowed, go on to write
          /\ lpc' = [lpc EXCEPT ![c] = "write"]
          /\ UNCHANGED <<file, lockAcquired, existingPid, lastOp, faults>>
       \/ /\ file # Absent
          /\ existingPid' = [existingPid EXCEPT ![c] = ParseInt(file)]
          /\ lpc' = [lpc EXCEPT ![c] = "probe"]
          /\ lastOp' = [lastOp EXCEPT ![c].read = file]
          /\ UNCHANGED <<file, lockAcquired, faults>>

\* if (await this.isProcessRunning(existingPid)) throw new Error(...)
AcqProbe(c) ==
    /\ lpc[c] = "probe"
    /\ \/ /\ IsProcessRunning(existingPid[c])
          /\ Throw(c, "already_running", existingPid[c], FALSE)
       \/ /\ ~IsProcessRunning(existingPid[c])
          /\ lpc' = [lpc EXCEPT ![c] = "unlink"]
          /\ UNCHANGED lastOp
    /\ UNCHANGED <<file, lockAcquired, existingPid, faults>>

\* await fs.unlink(LOCK_PATH) of the stale lock file
AcqUnlink(c) ==
    /\ lpc[c] = "unlink"
    /\ \/ /\ CanFault
          /\ faults' = faults + 1
          /\ Throw(c, "EIO", 0, TRUE)
          /\ UNCHANGED <<file, lockAcquired, existingPid>>
       \/ /\ file = Absent                  \* ENOENT: swallowed
          /\ lpc' = [lpc EXCEPT ![c] = "write"]
          /\ lastOp' = [lastOp EXCEPT ![c].touched = TRUE]
          /\ UNCHANGED <<file, lockAcquired, existingPid, faults>>
       \/ /\ file # Absent
          /\ file' = Absent
          /\ lpc' = [lpc EXCEPT ![c] = "write"]
          /\ lastOp' = [lastOp EXCEPT ![c].touched = TRUE, ![c].deleted = file]
          /\ UNCHANGED <<lockAcquired, existingPid, faults>>

\* await fs.writeFile(LOCK_PATH, this.pid.toString()); this.lockAcquired = true
AcqWrite(c) ==
    /\ lpc[c] = "write"
    /\ \/ /\ CanFault                       \* outside the try: propagates
          /\ faults' = faults + 1
          /\ Throw(c, "EIO", 0, TRUE)
          /\ UNCHANGED <<file, lockAcquired, existingPid>>
       \/ /\ file' = ToStr(PidOf[ProcOf[c]])
          /\ lockAcquired' = [lockAcquired EXCEPT ![ProcOf[c]] = TRUE]
          /\ lpc' = [lpc EXCEPT ![c] = "idle"]
          /\ lastOp' = [lastOp EXCEPT ![c].result = "ok", ![c].touched = TRUE]
          /\ UNCHANGED <<existingPid, faults>>

\* mutant of release(): the lockAcquired guard is missing
MutReleaseCallAlwaysUnlinks(c) ==
    /\ lpc[c] = "idle"
    /\ lpc' = [lpc EXCEPT ![c] = "rel"]
    /\ lastOp' = [lastOp EXCEPT ![c] = NewOp(c, "release")]
    /\ UNCHANGED <<file, lockAcquired, existingPid, faults>>

\* release() is entered: if (!this.lockAcquired) return; else start the unlink
ReleaseCall(c) ==
    /\ lpc[c] = "idle"
    /\ IF ~lockAcquired[ProcOf[c]]
       THEN /\ lastOp' = [lastOp EXCEPT ![c] =
                             [NewOp(c, "release") EXCEPT !.result = "ok"]]
            /\ UNCHANGED lpc
       ELSE /\ lpc' = [lpc EXCEPT ![c] = "rel"]
            /\ lastOp' = [lastOp EXCEPT ![c] = NewOp(c, "release")]
    /\ UNCHANGED <<file, lockAcquired, existingPid, faults>>

\* await fs.unlink(LOCK_PATH); this.lockAcquired = false; the catch logs a
\* non-ENOENT error and ignores ENOENT: release() returns normally either way
RelUnlink(c) ==
    /\ lpc[c] = "rel"
    /\ lpc' = [lpc EXCEPT ![c] = "idle"]
    /\ \/ /\ CanFault
          /\ faults' = faults + 1
          /\ lastOp' = [lastOp EXCEPT ![c].result = "ok", ![c].fault = TRUE]
          /\ UNCHANGED <<file, lockAcquired>>
       \/ /\ file = Absent
          /\ lastOp' = [lastOp EXCEPT ![c].result = "ok", ![c].touched = TRUE]
          /\ UNCHANGED <<file, lockAcquired, faults>>
       \/ /\ file # Absent
          /\ file' = Absent
          /\ lockAcquired' = [lockAcquired EXCEPT ![ProcOf[c]] = FALSE]
          /\ lastOp' = [lastOp EXCEPT ![c].result = "ok", ![c].touched = TRUE,
                                      ![c].deleted = file]
          /\ UNCHANGED faults
    /\ UNCHANGED existingPid

----------------------------------------------------------------------------
(* runner.js: the result object and the locals of one runCycle invocation *)

Outcomes == {"NO_ISSUES", "SUCCESS", "PARTIAL", "FAILED", "NO_CHANGES", "ERROR"}

Issues == 1..MaxIssues

\* const result = { issue: null, branch: null, pr_number: null,
\*                  status: 'unknown', error: null, duration_ms: 0 }
\* (0 stands for null; branch holds the issue number of auto/<number>-<slug>;
\* measured tells whether duration_ms has been assigned)
NewResult ==
    [issue |-> 0, branch |-> 0, pr_number |-> 0, status |-> "unknown",
     error |-> "none", measured |-> FALSE]

\* a runCycle invocation that has not started
NoCycle == [pc |-> "unstarted", attempt |-> 0, cerr |-> "none"]

----------------------------------------------------------------------------
(* github.js: GitHubClient.rateLimit and withRetry, called by two callers on
   the one exported client.  Time is Date.now() in ms; it advances in steps
   of TickMs and a timer fires in the step in which it falls due. *)

Callers == {"k1", "k2"}

\* this.minDelayMs
minDelayMs == 1000
\* withRetry(operation, maxRetries = 3)
maxRetries == 3

TickMs == minDelayMs

\* Math.pow(2, n)
RECURSIVE Pow2(_)
Pow2(n) == IF n = 0 THEN 1 ELSE 2 * Pow2(n - 1)

\* seconds a throttling response names in its retry-after header
RetryAfterSecs == {0, 2}

NoError ==
    [attempt |-> 0, status |-> 0, retryAfter |-> Absent,
     supplied |-> FALSE, secs |-> 0]

\* the errors operation() may reject with on attempt a: a generic failure, or
\* a throttling response without or with a retry-after header (a string)
OperationErrors(a) ==
    {[NoError EXCEPT !.attempt = a, !.status = 500]}
    \cup {[NoError EXCEPT !.attempt = a, !.status = st] : st \in {403, 429}}
    \cup {[attempt |-> a, status |-> st, retryAfter |-> ToStr(n),
           supplied |-> TRUE, secs |-> n] : st \in {403, 429}, n \in RetryAfterSecs}

NoCall ==
    [pc |-> "idle", attempt |-> 0, wake |-> 0, nInv |-> 0, delay |-> 0,
     lastErr |-> NoError, throttled |-> FALSE,
     out |-> "none", value |-> 0, thrown |-> NoError]

\* the other variables of the module
nonRetryVars == <<lockVars, nops, runnerVars, agentVars, selVars, effVars, bn>>

InitRetryVars ==
    /\ now = minDelayMs
    /\ lastRequestTime = 0
    /\ wr = [k \in Callers |-> NoCall]
    /\ prevInvokeAt = 0
    /\ minGap = MaxTime

----------------------------------------------------------------------------
(* claude.js: the data of invokeClaude and runClaudeCommand *)

\* await claudeHandler.invokeClaude(promptPath, 1)
AgentRetries == 1
\* const maxAttempts = retries + 1
maxAttempts == AgentRetries + 1

\* error.message of a rejected runClaudeCommand, as a sequence of words
TimedOutMsg == <<"Claude Code timed out">>
SpawnFailedMsg == <<"Failed to spawn Claude Code:", "ENOENT">>
ExitedMsg(code) == <<"Claude Code exited with code", code, ". stderr:">>

\* s occurs in t as a contiguous part
Contains(t, s) ==
    \E i \in 1..(Len(t) + 1) :
        i + Len(s) - 1 <= Len(t) /\ SubSeq(t, i, i + Len(s) - 1) = s

NoAgent == [spawned |-> 0, resolved |-> 0, failed |-> << >>, thrown |-> << >>]

nonAgentAux == <<retryVars, selVars, effVars, bn>>

InitAgentVars ==
    /\ child = [c \in 1..MaxCycles |-> [a \in 1..maxAttempts |-> "none"]]
    /\ ag = [c \in 1..MaxCycles |-> NoAgent]

----------------------------------------------------------------------------
(* issues.js: the data of findEligibleIssue.  A branch name is a sequence of
   lexical tokens: the prefix before the first digit, single digits, "-",
   and the words of the slug. *)

Selectors == {"s1", "s2"}

IssueNums == 1..MaxIssueNum

\* what searchEligibleIssues may return: lists of distinct issue numbers
IssueLists ==
    {l \in UNION {[1..k -> IssueNums] : k \in 0..MaxIssueNum} :
        \A i, j \in DOMAIN l : l[i] = l[j] => i = j}

DigitChars == <<"0", "1", "2", "3", "4", "5", "6", "7", "8", "9">>

DigitVal == [ch \in {DigitChars[i] : i \in 1..10} |-> CHOOSE v \in 0..9 : DigitChars[v + 1] = ch]

IsDigit(ch) == ch \in DOMAIN DigitVal

\* head branches of pull requests that may be open in the repository
RefPool ==
    { <<"auto/", "1", "-", "fix">>,
      <<"auto/", "2", "-", "fix">>,
      <<"auto/", "0", "1", "-">>,
      <<"auto/", "1", "2", "-", "fix">>,
      <<"auto/", "fix", "-", "1">>,
      <<"feature/", "1", "-", "fix">> }

\* the open pull requests at the time of one pulls.list call
OpenPRSets == {P \in SUBSET RefPool : Cardinality(P) <= 2}

NoSelect ==
    [pc |-> "idle", calls |-> 0, issues |-> << >>, prs |-> {},
     selected |-> 0, ret |-> 0, threw |-> FALSE]

nonSelVars == <<lockVars, nops, runnerVars, retryVars, agentVars, effVars, bn>>

InitSelVars ==
    /\ sel = [s \in Selectors |-> NoSelect]
    /\ processedIssues = {}
    /\ selections = << >>

----------------------------------------------------------------------------
(* runner.js with git.js and pr.js: the data of one cycle and its effects *)

\* CONFIG.labels.issue, CONFIG.labels.claudeHelpWanted
RequiredLabels == {"ISSUE_LABEL", "CLAUDE_HELP_WANTED_LABEL"}

NoPR ==
    [exists |-> FALSE, number |-> 0, draft |-> FALSE, titleDraft |-> FALSE,
     bodyError |-> "none", labels |-> {}]

\* a cycle's record: position, the result object (status, issue, branch,
\* pr_number, error) and history: operations invoked (ops) and completed
\* (done), the pull request created, the state of the tree at the status
\* check of the try block and at git add
NoEffects ==
    [pc |-> "idle", n |-> 0, path |-> "outer", ops |-> {}, done |-> {},
     cerr |-> "none", status |-> "unknown", issue |-> 0, branch |-> 0,
     pr_number |-> 0, error |-> "none", pr |-> NoPR,
     testsPass |-> TRUE, buildPass |-> TRUE, hadChanges |-> "unchecked",
     recChanges |-> "unchecked", staleAtAgent |-> FALSE, staleInCommit |-> FALSE,
     promptAtAdd |-> "no add", promptInCommit |-> FALSE]

nonEffVars == <<lockVars, nops, runnerVars, retryVars, agentVars, selVars, bn>>

InitEffVars ==
    /\ ec = NoEffects
    /\ wt \in {[prompt |-> FALSE, dirty |-> FALSE, stale |-> FALSE,
                 promptCommitted |-> FALSE, ignored |-> i] : i \in BOOLEAN}
    /\ hist = << >>
    /\ ecount = 0
    /\ commands \in [test : BOOLEAN, build : BOOLEAN]

(* issues.js generateBranchName: the data *)
\* .substring(0, 40)
SlugLimit == 40

\* the characters of a title: a lowercase letter, an uppercase letter, a
\* digit, white space, a hyphen, a special character
TitleChars == {"a", "A", "1", " ", "-", "!"}

LowerOf == [ch \in {"A"} |-> "a"]

WhiteSpace == {" "}

\* the sequences over TitleChars of length at most MaxAffix
Affixes == UNION {[1..k -> TitleChars] : k \in 0..MaxAffix}

\* n times the character ch
Repeat(ch, n) == [i \in 1..n |-> ch]

\* titles: a run of letters, absent or about as long as the slug limit,
\* with other characters before and after it
Titles ==
    {pre \o Repeat("a", k) \o suf :
        pre \in Affixes, suf \in Affixes,
        k \in {0} \cup ((SlugLimit - 2)..SlugLimit)}

NoBranch ==
    [pc |-> "issue", n |-> 0, title |-> << >>, slug |-> << >>, name |-> << >>,
     match |-> << >>, number |-> 0]

nonBranchVars == <<lockVars, nops, runnerVars, retryVars, agentVars, selVars, effVars>>

InitAuxVars ==
    /\ InitRetryVars /\ InitAgentVars /\ InitSelVars
    /\ InitEffVars /\ ~wt.ignored /\ ~commands.test /\ ~commands.build
    /\ bn = NoBranch




----------------------------------------------------------------------------
(* SpecLock: two live processes on one working directory *)

InitLockVars ==
    /\ file \in {Absent} \cup {ToStr(p) : p \in StalePids}
    /\ lockAcquired = [p \in Procs |-> FALSE]
    /\ lpc = [c \in Ctx |-> "idle"]
    /\ existingPid = [c \in Ctx |-> 0]
    /\ lastOp = [c \in Ctx |-> NoOp]
    /\ nops = [c \in Ctx |-> 0]
    /\ faults = 0

\* the runner of process p1 before main() has run
InitRunnerVars ==
    /\ mpc = "boot"
    /\ exit = "running"
    /\ isRunning = FALSE
    /\ timer = FALSE
    /\ sig = "none"
    /\ sigAt = {}
    /\ hpc = [h \in {"h1", "h2"} |-> "idle"]
    /\ cyc = [c \in 1..MaxCycles |-> NoCycle]
    /\ result = [c \in 1..MaxCycles |-> NewResult]
    /\ cycleResults = << >>
    /\ ncyc = 0
    /\ promptFile = FALSE
    /\ promptTracked = FALSE
    /\ dirty = FALSE

InitLock ==
    InitLockVars /\ InitRunnerVars /\ promptIgnored = FALSE /\ InitAuxVars

LockCallAcquire(p) ==
    /\ nops[p] < MaxOps
    /\ nops' = [nops EXCEPT ![p] = @ + 1]
    /\ AcquireCall(p)
    /\ UNCHANGED <<runnerVars, auxVars>>

LockCallRelease(p) ==
    /\ nops[p] < MaxOps
    /\ nops' = [nops EXCEPT ![p] = @ + 1]
    /\ ReleaseCall(p)
    /\ UNCHANGED <<runnerVars, auxVars>>

LockAcqRead(p) == AcqRead(p) /\ UNCHANGED <<nops, runnerVars, auxVars>>

LockAcqProbe(p) == AcqProbe(p) /\ UNCHANGED <<nops, runnerVars, auxVars>>

LockAcqUnlink(p) == AcqUnlink(p) /\ UNCHANGED <<nops, runnerVars, auxVars>>

LockAcqWrite(p) == AcqWrite(p) /\ UNCHANGED <<nops, runnerVars, auxVars>>

LockRelUnlink(p) == RelUnlink(p) /\ UNCHANGED <<nops, runnerVars, auxVars>>

NextLock ==
    \/ \E p \in Procs : LockCallAcquire(p)
    \/ \E p \in Procs : LockCallRelease(p)
    \/ \E p \in Procs : LockAcqRead(p)
    \/ \E p \in Procs : LockAcqProbe(p)
    \/ \E p \in Procs : LockAcqUnlink(p)
    \/ \E p \in Procs : LockAcqWrite(p)
    \/ \E p \in Procs : LockRelUnlink(p)

SpecLock == InitLock /\ [][NextLock]_vars

----------------------------------------------------------------------------
(* runner.js: runCycle, one action per await point.  An error is recorded by
   the step it comes from: "select" (findEligibleIssue), "git" (sync, branch),
   "prompt" (createPromptFile), "agent" (invokeClaude), "verify" (tests or
   build), "publish" (add, commit, push, pull request, labels). *)

Alive == exit = "running"

InFlight(c) == cyc[c].pc \notin {"unstarted", "done"}

\* runCycle is entered: the result object is created and findEligibleIssue
\* is called
StartCycle(c) ==
    /\ cyc' = [cyc EXCEPT ![c] = [NoCycle EXCEPT !.pc = "select"]]
    /\ result' = [result EXCEPT ![c] = NewResult]
    /\ ncyc' = c
    /\ UNCHANGED cycleResults

\* logCycleResult(result): this.cycleResults.push(result)
LogCycleResult(c) == cycleResults' = Append(cycleResults, c)

\* mutant of the outer catch: the error is recorded, the status is not
MutCatchOuterNoStatus(c, e) ==
    /\ result' = [result EXCEPT ![c].error = e]
    /\ cyc' = [cyc EXCEPT ![c].pc = "finally"]

\* catch (error) { result.status = 'ERROR'; result.error = error.message }
CatchOuter(c, e) ==
    /\ result' = [result EXCEPT ![c].status = "ERROR", ![c].error = e]
    /\ cyc' = [cyc EXCEPT ![c].pc = "finally"]

\* catch (claudeError) { ... if (await gitOps.hasChanges()) ...
CatchInner(c, e) ==
    /\ cyc' = [cyc EXCEPT ![c].pc = "r_status", ![c].cerr = e]
    /\ UNCHANGED result

\* the step of cycle c at position pc moves on to position next
Goto(c, next) ==
    /\ cyc' = [cyc EXCEPT ![c].pc = next]
    /\ UNCHANGED result

At(c, pc) == Alive /\ c \in 1..MaxCycles /\ cyc[c].pc = pc

\* const issue = await issueSelector.findEligibleIssue()
Select(c) ==
    /\ At(c, "select")
    /\ \/ /\ result' = [result EXCEPT ![c].status = "NO_ISSUES"]
          /\ LogCycleResult(c)
          /\ cyc' = [cyc EXCEPT ![c].pc = "finally"]
       \/ /\ CatchOuter(c, "select")
          /\ UNCHANGED cycleResults
       \/ /\ \E n \in Issues :
                result' = [result EXCEPT ![c].issue = n, ![c].branch = n]
          /\ cyc' = [cyc EXCEPT ![c].pc = "sync"]
          /\ UNCHANGED cycleResults
    /\ UNCHANGED <<ncyc, lockVars, nops, auxVars, procVars, treeVars>>

\* await gitOps.syncWithDefault()
Sync(c) ==
    /\ At(c, "sync")
    /\ Goto(c, "branch") \/ CatchOuter(c, "git")
    /\ UNCHANGED <<cycleResults, ncyc, lockVars, nops, auxVars, procVars, treeVars>>

\* await gitOps.createAndCheckoutBranch(branchName)
Branch(c) ==
    /\ At(c, "branch")
    /\ Goto(c, "prompt") \/ CatchOuter(c, "git")
    /\ UNCHANGED <<cycleResults, ncyc, lockVars, nops, auxVars, procVars, treeVars>>

\* generateRepoContext() (never throws), then
\* const promptPath = await claudeHandler.createPromptFile(issue, repoContext)
Prompt(c) ==
    /\ At(c, "prompt")
    /\ \/ /\ cyc' = [cyc EXCEPT ![c].pc = "agent", ![c].attempt = 1]
          /\ promptFile' = TRUE
          /\ promptTracked' = FALSE
          /\ UNCHANGED result
       \/ /\ CatchOuter(c, "prompt")
          /\ UNCHANGED <<promptFile, promptTracked>>
    /\ UNCHANGED <<cycleResults, ncyc, lockVars, nops, auxVars, procVars,
                   promptIgnored, dirty>>

\* invokeClaude: runClaudeCommand resolves (exit 0) or rejects (non-zero exit,
\* spawn error, timeout); the agent may have changed the working tree
Agent(c) ==
    /\ At(c, "agent")
    /\ dirty' \in {dirty, TRUE}
    /\ \/ Goto(c, "verify")
       \/ /\ cyc[c].attempt < 2
          /\ Goto(c, "pause")
       \/ /\ cyc[c].attempt >= 2
          /\ CatchInner(c, "agent")
    /\ UNCHANGED <<cycleResults, ncyc, lockVars, nops, auxVars, procVars,
                   promptFile, promptTracked, promptIgnored>>

\* await new Promise(resolve => setTimeout(resolve, 10000)); continue
Pause(c) ==
    /\ At(c, "pause")
    /\ cyc' = [cyc EXCEPT ![c].pc = "agent", ![c].attempt = @ + 1]
    /\ UNCHANGED <<result, cycleResults, ncyc, lockVars, nops, auxVars, procVars, treeVars>>

\* const testsPass = await gitOps.runTests();
\* const buildPass = await gitOps.runBuild();
\* if (!testsPass || !buildPass) throw new Error('Tests or build failed ...')
Verify(c) ==
    /\ At(c, "verify")
    /\ \E testsPass \in BOOLEAN, buildPass \in BOOLEAN :
          IF testsPass /\ buildPass
          THEN Goto(c, "status")
          ELSE CatchInner(c, "verify")
    /\ UNCHANGED <<cycleResults, ncyc, lockVars, nops, auxVars, procVars, treeVars>>

\* gitOps.hasChanges(): git status --porcelain prints something; false when
\* the git command fails
HasChanges ==
    {dirty \/ (promptFile /\ ~promptIgnored /\ ~promptTracked), FALSE}

\* if (await gitOps.hasChanges()) { ... } else { result.status = 'NO_CHANGES' }
Status(c) ==
    /\ At(c, "status")
    /\ \E changes \in HasChanges :
          IF changes
          THEN Goto(c, "commit")
          ELSE /\ result' = [result EXCEPT ![c].status = "NO_CHANGES"]
               /\ cyc' = [cyc EXCEPT ![c].pc = "finally"]
    /\ UNCHANGED <<cycleResults, ncyc, lockVars, nops, auxVars, procVars, treeVars>>

\* the working tree after git add . and git commit
Committed ==
    /\ dirty' = FALSE
    /\ promptTracked' = (promptTracked \/ (promptFile /\ ~promptIgnored))
    /\ UNCHANGED <<promptFile, promptIgnored>>

\* await gitOps.addAllChanges(); await gitOps.createCommit(commitMessage)
Commit(c) ==
    /\ At(c, "commit")
    /\ \/ Goto(c, "push") /\ Committed
       \/ CatchInner(c, "publish") /\ UNCHANGED treeVars
    /\ UNCHANGED <<cycleResults, ncyc, lockVars, nops, auxVars, procVars>>

\* await gitOps.pushBranch(branchName)
Push(c) ==
    /\ At(c, "push")
    /\ Goto(c, "pr") \/ CatchInner(c, "publish")
    /\ UNCHANGED <<cycleResults, ncyc, lockVars, nops, auxVars, procVars, treeVars>>

\* const pr = await prManager.createPullRequest(issue, branchName)
\* (github.createPullRequest, then github.addLabelsToIssue; either may throw);
\* result.pr_number = pr.number; result.status = 'SUCCESS'
Pr(c) ==
    /\ At(c, "pr")
    /\ \/ /\ result' = [result EXCEPT ![c].pr_number = c,
                                      ![c].status = "SUCCESS"]
          /\ cyc' = [cyc EXCEPT ![c].pc = "finally"]
       \/ CatchInner(c, "publish")
    /\ UNCHANGED <<cycleResults, ncyc, lockVars, nops, auxVars, procVars, treeVars>>

\* recovery: if (await gitOps.hasChanges()) { ... } else
\* { result.status = 'FAILED'; result.error = claudeError.message }
RStatus(c) ==
    /\ At(c, "r_status")
    /\ \E changes \in HasChanges :
          IF changes
          THEN Goto(c, "r_commit")
          ELSE /\ result' = [result EXCEPT ![c].status = "FAILED",
                                           ![c].error = cyc[c].cerr]
               /\ cyc' = [cyc EXCEPT ![c].pc = "finally"]
    /\ UNCHANGED <<cycleResults, ncyc, lockVars, nops, auxVars, procVars, treeVars>>

\* recovery: await gitOps.addAllChanges(); await gitOps.createCommit(...)
RCommit(c) ==
    /\ At(c, "r_commit")
    /\ \/ Goto(c, "r_push") /\ Committed
       \/ CatchOuter(c, "publish") /\ UNCHANGED treeVars
    /\ UNCHANGED <<cycleResults, ncyc, lockVars, nops, auxVars, procVars>>

\* recovery: await gitOps.pushBranch(branchName)
RPush(c) ==
    /\ At(c, "r_push")
    /\ Goto(c, "r_pr") \/ CatchOuter(c, "publish")
    /\ UNCHANGED <<cycleResults, ncyc, lockVars, nops, auxVars, procVars, treeVars>>

\* recovery: const pr = await prManager.createDraftPR(issue, branchName,
\* claudeError) (create, then label; either may throw); result.pr_number =
\* pr.number; result.status = 'PARTIAL'; result.error = claudeError.message
RPr(c) ==
    /\ At(c, "r_pr")
    /\ \/ /\ result' = [result EXCEPT ![c].pr_number = c,
                                      ![c].status = "PARTIAL",
                                      ![c].error = cyc[c].cerr]
          /\ cyc' = [cyc EXCEPT ![c].pc = "finally"]
       \/ CatchOuter(c, "publish")
    /\ UNCHANGED <<cycleResults, ncyc, lockVars, nops, auxVars, procVars, treeVars>>

\* claudeHandler.cleanup(): unlink issue_prompt.md, errors ignored
CleanupPrompt ==
    /\ promptFile' = FALSE
    /\ UNCHANGED <<promptTracked, promptIgnored, dirty>>

\* finally { await claudeHandler.cleanup(); result.duration_ms = ...;
\*           this.logCycleResult(result) }
\* mutant of the finally block: the result is not logged
MutFinallyWithoutLog(c) ==
    /\ At(c, "finally")
    /\ CleanupPrompt
    /\ result' = [result EXCEPT ![c].measured = TRUE]
    /\ cyc' = [cyc EXCEPT ![c] = [NoCycle EXCEPT !.pc = "done"]]
    /\ UNCHANGED <<cycleResults, ncyc, lockVars, nops, auxVars, procVars>>

Finally(c) ==
    /\ At(c, "finally")
    /\ CleanupPrompt
    /\ result' = [result EXCEPT ![c].measured = TRUE]
    /\ LogCycleResult(c)
    /\ cyc' = [cyc EXCEPT ![c] = [NoCycle EXCEPT !.pc = "done"]]
    /\ UNCHANGED <<ncyc, lockVars, nops, auxVars, procVars>>

----------------------------------------------------------------------------
(* runner.js start()/stop(), lock.js and index.js signal listeners *)

\* main(): validateConfig(); runner.start(): await this.lock.acquire()
Start ==
    /\ Alive /\ mpc = "boot"
    /\ AcquireCall("p1")
    /\ mpc' = "acquiring"
    /\ UNCHANGED <<nops, auxVars, exit, isRunning, timer, sig, sigAt, hpc, cycVars, treeVars>>

\* acquire() returned: setupGracefulShutdown(); this.isRunning = true;
\* await this.runInitialCycle()
StartAcquired ==
    /\ Alive /\ mpc = "acquiring"
    /\ lpc["p1"] = "idle" /\ lastOp["p1"].result = "ok"
    /\ isRunning' = TRUE
    /\ mpc' = "initial"
    /\ StartCycle(1)
    /\ lastOp' = [lastOp EXCEPT !["p1"] = NoOp]   \* the outcome is consumed
    /\ UNCHANGED <<file, lockAcquired, lpc, existingPid, faults, nops, auxVars, exit,
                   timer, sig, sigAt, hpc, treeVars>>

\* acquire() threw: catch (error) { await this.cleanup(); ... }
StartFailed ==
    /\ Alive /\ mpc = "acquiring"
    /\ lpc["p1"] = "idle" /\ lastOp["p1"].result = "threw"
    /\ mpc' = "fail_cleanup"
    /\ UNCHANGED <<lockVars, nops, auxVars, exit, isRunning, timer, sig, sigAt, hpc, cycVars,
                   treeVars>>

\* cleanup(): await claudeHandler.cleanup(); await this.lock.release()
StartFailedCleanup ==
    /\ Alive /\ mpc = "fail_cleanup"
    /\ CleanupPrompt
    /\ ReleaseCall("p1")
    /\ mpc' = "fail_release"
    /\ UNCHANGED <<nops, auxVars, exit, isRunning, timer, sig, sigAt, hpc, cycVars>>

\* release() returned: process.exit(1)
StartFailedExit ==
    /\ Alive /\ mpc = "fail_release"
    /\ lpc["p1"] = "idle"
    /\ exit' = "exit1"
    /\ UNCHANGED <<lockVars, nops, auxVars, mpc, isRunning, timer, sig, sigAt, hpc, cycVars,
                   treeVars>>

\* the initial cycle is over: if (this.isRunning) this.startPolling()
StartPolling ==
    /\ Alive /\ mpc = "initial"
    /\ cyc[1].pc = "done"
    /\ timer' = isRunning
    /\ mpc' = "running"
    /\ UNCHANGED <<lockVars, nops, auxVars, exit, isRunning, sig, sigAt, hpc, cycVars, treeVars>>

\* mutant of the polling loop: the callback starts a cycle only while every
\* finished cycle ended SUCCESS
MutTimerFiresOnlyAfterSuccess ==
    /\ Alive /\ timer
    /\ isRunning
    /\ ncyc < MaxCycles
    /\ \A c \in 1..MaxCycles : cyc[c].pc = "done" => result[c].status = "SUCCESS"
    /\ StartCycle(ncyc + 1)
    /\ UNCHANGED <<lockVars, nops, auxVars, procVars, treeVars>>

\* the setInterval callback: if (this.isRunning) await this.runCycle()
TimerFires ==
    /\ Alive /\ timer
    /\ isRunning
    /\ ncyc < MaxCycles
    /\ StartCycle(ncyc + 1)
    /\ UNCHANGED <<lockVars, nops, auxVars, procVars, treeVars>>

\* the listeners lock.js registers exist once setupGracefulShutdown has run
LockListenersUp == mpc \in {"initial", "running"}

\* SIGINT or SIGTERM arrives: the index.js listener runs stop() up to its
\* first await (isRunning = false, clearInterval, claudeHandler.cleanup()
\* started), then the lock.js listener runs up to the await in release()
Signal(kind) ==
    /\ Alive /\ sig = "none"
    /\ mpc # "boot"       \* main() runs up to its first await at once
    /\ sig' = kind
    /\ sigAt' = {c \in 1..MaxCycles : InFlight(c)}
    /\ isRunning' = FALSE
    /\ timer' = FALSE
    /\ IF LockListenersUp
       THEN /\ ReleaseCall("h2")
            /\ hpc' = [h1 |-> "cleanup", h2 |-> "release"]
       ELSE /\ hpc' = [hpc EXCEPT !["h1"] = "cleanup"]
            /\ UNCHANGED lockVars
    /\ UNCHANGED <<nops, auxVars, mpc, exit, cycVars, treeVars>>

\* index.js listener, stop() -> cleanup(): the prompt file is unlinked, then
\* await this.lock.release()
StopCleanup ==
    /\ Alive /\ hpc["h1"] = "cleanup"
    /\ CleanupPrompt
    /\ ReleaseCall("h1")
    /\ hpc' = [hpc EXCEPT !["h1"] = "release"]
    /\ UNCHANGED <<nops, auxVars, mpc, exit, isRunning, timer, sig, sigAt, cycVars>>

\* index.js listener: stop() returned; the SIGINT listener prints
\* runner.getStats(), the SIGTERM listener does not; process.exit(0)
StopExit ==
    /\ Alive /\ hpc["h1"] = "release"
    /\ lpc["h1"] = "idle"
    /\ hpc' = [hpc EXCEPT !["h1"] = IF sig = "SIGINT" THEN "stats printed"
                                    ELSE "exiting"]
    /\ exit' = "exit0"
    /\ UNCHANGED <<lockVars, nops, auxVars, mpc, isRunning, timer, sig, sigAt, cycVars,
                   treeVars>>

\* console.log of the final statistics has run (index.js SIGINT listener)
StatsEmitted == hpc["h1"] = "stats printed"

\* lock.js listener: await this.release(); process.exit(0)
LockListenerExit ==
    /\ Alive /\ hpc["h2"] = "release"
    /\ lpc["h2"] = "idle"
    /\ exit' = "exit0"
    /\ UNCHANGED <<lockVars, nops, auxVars, mpc, isRunning, timer, sig, sigAt, hpc, cycVars,
                   treeVars>>

\* the file steps of the lock calls made by the runner process
RunAcqRead(c) == Alive /\ AcqRead(c) /\ UNCHANGED <<nops, runnerVars, auxVars>>

RunAcqProbe(c) == Alive /\ AcqProbe(c) /\ UNCHANGED <<nops, runnerVars, auxVars>>

RunAcqUnlink(c) == Alive /\ AcqUnlink(c) /\ UNCHANGED <<nops, runnerVars, auxVars>>

RunAcqWrite(c) == Alive /\ AcqWrite(c) /\ UNCHANGED <<nops, runnerVars, auxVars>>

RunRelUnlink(c) == Alive /\ RelUnlink(c) /\ UNCHANGED <<nops, runnerVars, auxVars>>

----------------------------------------------------------------------------
(* Spec: one runner process; the lock file may be absent, stale, or held by
   another live instance *)

Init ==
    /\ file \in {Absent, ToStr(PidOf["p2"])} \cup {ToStr(p) : p \in StalePids}
    /\ lockAcquired = [p \in Procs |-> p = "p2" /\ file = ToStr(PidOf["p2"])]
    /\ lpc = [c \in Ctx |-> "idle"]
    /\ existingPid = [c \in Ctx |-> 0]
    /\ lastOp = [c \in Ctx |-> NoOp]
    /\ nops = [c \in Ctx |-> 0]
    /\ faults = 0
    /\ InitRunnerVars
    /\ promptIgnored \in BOOLEAN
    /\ InitAuxVars

\* a step of one runCycle invocation outside runClaudeCommand
StepsAroundAgent(c) ==
    \/ Select(c)
    \/ Sync(c)
    \/ Branch(c)
    \/ Prompt(c)
    \/ Pause(c)
    \/ Verify(c)
    \/ Status(c)
    \/ Commit(c)
    \/ Push(c)
    \/ Pr(c)
    \/ RStatus(c)
    \/ RCommit(c)
    \/ RPush(c)
    \/ RPr(c)
    \/ Finally(c)

\* a step of one runCycle invocation, invokeClaude's attempts taken as one
\* step each
CycleStep(c) == Agent(c) \/ StepsAroundAgent(c)

\* a step of start() or of a lock call made by start()
StartStep ==
    \/ Start
    \/ StartAcquired
    \/ StartFailed
    \/ StartFailedCleanup
    \/ StartFailedExit
    \/ StartPolling
    \/ RunAcqRead("p1")
    \/ RunAcqProbe("p1")
    \/ RunAcqUnlink("p1")
    \/ RunAcqWrite("p1")

\* normal operation: no shutdown signal is delivered
Next ==
    \/ StartStep
    \/ TimerFires
    \/ \E c \in 1..MaxCycles : CycleStep(c)

Spec == Init /\ [][Next]_vars

----------------------------------------------------------------------------
(* SpecShutdown: the runner process with a SIGINT or SIGTERM delivered at any
   moment *)

TimerFiresBeforeShutdown == TimerFires /\ ncyc < MaxShutdownCycles

NextShutdown ==
    \/ StartStep
    \/ TimerFiresBeforeShutdown
    \/ \E c \in 1..MaxShutdownCycles : CycleStep(c)
    \/ \E kind \in {"SIGINT", "SIGTERM"} : Signal(kind)
    \/ StopCleanup
    \/ StopExit
    \/ LockListenerExit
    \/ \E c \in {"h1", "h2"} : RunRelUnlink(c)

SpecShutdown == Init /\ [][NextShutdown]_vars

----------------------------------------------------------------------------
(* github.js: the steps of rateLimit and withRetry *)

\* error.status === 403 || error.status === 429
IsThrottle(e) == e.status = 403 \/ e.status = 429

\* a non-empty string is truthy, undefined is not
Truthy(s) == Len(s) > 0

\* mutant of the throttling delay: the retry-after header is ignored
MutThrottleDelayIgnoresHeader(e, attempt) == Pow2(attempt) * 1000

\* retryAfter ? parseInt(retryAfter) * 1000 : Math.pow(2, attempt) * 1000
ThrottleDelay(e, attempt) ==
    IF Truthy(e.retryAfter) THEN ParseInt(e.retryAfter) * 1000
    ELSE Pow2(attempt) * 1000

\* Math.pow(2, attempt) * 1000
GenericDelay(attempt) == Pow2(attempt) * 1000

\* mutant of the cap: the error is raised one attempt early
MutGivesUpEarly(attempt) == attempt + 1 >= maxRetries

\* if (attempt === maxRetries) throw error
GivesUp(attempt) == attempt = maxRetries

\* what rateLimit() sleeps when entered now (0: it does not sleep)
RateLimitDelay ==
    IF now - lastRequestTime < minDelayMs
    THEN minDelayMs - (now - lastRequestTime)
    ELSE 0

\* this.lastRequestTime = Date.now(); return await operation()
Invoke(k, r) ==
    /\ wr' = [wr EXCEPT ![k] = [r EXCEPT !.pc = "op", !.wake = 0,
                                         !.nInv = r.nInv + 1]]
    /\ lastRequestTime' = now
    /\ prevInvokeAt' = now
    /\ minGap' = IF now - prevInvokeAt < minGap THEN now - prevInvokeAt
                 ELSE minGap

\* one pass of the for loop up to its first sleep: await this.rateLimit()
EnterAttempt(k, r) ==
    IF RateLimitDelay > 0
    THEN /\ wr' = [wr EXCEPT ![k] = [r EXCEPT !.pc = "rateLimit",
                                              !.wake = now + RateLimitDelay]]
         /\ UNCHANGED <<lastRequestTime, prevInvokeAt, minGap>>
    ELSE Invoke(k, r)

WithRetry(k) ==
    /\ wr[k].pc = "idle"
    /\ EnterAttempt(k, [NoCall EXCEPT !.attempt = 1])
    /\ UNCHANGED <<now, nonRetryVars>>

\* the setTimeout of rateLimit() fires
RateLimitWake(k) ==
    /\ wr[k].pc = "rateLimit"
    /\ wr[k].wake <= now
    /\ Invoke(k, wr[k])
    /\ UNCHANGED <<now, nonRetryVars>>

OperationResolves(k) ==
    /\ wr[k].pc = "op"
    /\ wr' = [wr EXCEPT ![k].pc = "done", ![k].out = "returned",
                        ![k].value = wr[k].attempt]
    /\ UNCHANGED <<now, lastRequestTime, prevInvokeAt, minGap, nonRetryVars>>

\* the catch block of withRetry
OperationRejects(k) ==
    /\ wr[k].pc = "op"
    /\ \E e \in OperationErrors(wr[k].attempt) :
         LET a == wr[k].attempt
             r == [wr[k] EXCEPT !.lastErr = e,
                                !.throttled = @ \/ IsThrottle(e)]
         IN  IF IsThrottle(e)
             THEN wr' = [wr EXCEPT ![k] =
                           [r EXCEPT !.pc = "backoff",
                                     !.delay = ThrottleDelay(e, a),
                                     !.wake = now + ThrottleDelay(e, a)]]
             ELSE IF GivesUp(a)
             THEN wr' = [wr EXCEPT ![k] =
                           [r EXCEPT !.pc = "done", !.out = "threw",
                                     !.thrown = e]]
             ELSE wr' = [wr EXCEPT ![k] =
                           [r EXCEPT !.pc = "backoff",
                                     !.delay = GenericDelay(a),
                                     !.wake = now + GenericDelay(a)]]
    /\ UNCHANGED <<now, lastRequestTime, prevInvokeAt, minGap, nonRetryVars>>

\* the backoff setTimeout fires: attempt++, and the loop ends (the function
\* returns undefined) when attempt exceeds maxRetries
BackoffWake(k) ==
    /\ wr[k].pc = "backoff"
    /\ wr[k].wake <= now
    /\ LET r == [wr[k] EXCEPT !.attempt = @ + 1, !.wake = 0, !.delay = 0]
       IN  IF r.attempt <= maxRetries
           THEN EnterAttempt(k, r)
           ELSE /\ wr' = [wr EXCEPT ![k] =
                            [r EXCEPT !.pc = "done", !.out = "returned",
                                      !.value = 0]]
                /\ UNCHANGED <<lastRequestTime, prevInvokeAt, minGap>>
    /\ UNCHANGED <<now, nonRetryVars>>

Sleeping(k) == wr[k].pc \in {"rateLimit", "backoff"}

Tick ==
    /\ \A k \in Callers : Sleeping(k) => wr[k].wake > now
    /\ now + TickMs <= MaxTime
    /\ now' = now + TickMs
    /\ UNCHANGED <<lastRequestTime, wr, prevInvokeAt, minGap, nonRetryVars>>

InitRetry == InitLock /\ file = Absent

NextRetry ==
    \/ \E k \in Callers : WithRetry(k)
    \/ \E k \in Callers : RateLimitWake(k)
    \/ \E k \in Callers : OperationResolves(k)
    \/ \E k \in Callers : OperationRejects(k)
    \/ \E k \in Callers : BackoffWake(k)
    \/ Tick

SpecRetry == InitRetry /\ [][NextRetry]_vars

----------------------------------------------------------------------------
(* claude.js: invokeClaude and runClaudeCommand with the agent subprocess of
   each attempt.  A subprocess is "none" (not spawned), "running",
   "signalled" (SIGTERM sent by the timeout, not yet exited) or "exited". *)

ChildAlive(c, a) == child[c][a] \in {"running", "signalled"}

AliveChildren ==
    {<<c, a>> \in (1..MaxCycles) \X (1..maxAttempts) : ChildAlive(c, a)}

\* mutant of the composed error: the first attempt's message is kept
MutComposeErrorFirst(msgs) ==
    <<"Claude Code failed after", "2", "attempts:">> \o msgs[1]

\* new Error(`Claude Code failed after ${maxAttempts} attempts: ${error.message}`)
\* where error is the one caught on the last pass of the loop
ComposeError(msgs) ==
    <<"Claude Code failed after", "2", "attempts:">> \o msgs[Len(msgs)]

\* mutant of the caller's handling: an agent failure aborts the cycle
MutAgentThrowsAborts(c) == CatchOuter(c, "agent")

\* invokeClaude throws into runCycle's inner catch (the recovery path)
AgentThrows(c) == CatchInner(c, "agent")

\* the catch block of invokeClaude for a rejection with message msg
AgentRejects(c, msg) ==
    LET failed == Append(ag[c].failed, msg) IN
    IF cyc[c].attempt < maxAttempts
    THEN /\ Goto(c, "pause")
         /\ ag' = [ag EXCEPT ![c].failed = failed]
    ELSE /\ AgentThrows(c)
         /\ ag' = [ag EXCEPT ![c].failed = failed,
                             ![c].thrown = ComposeError(failed)]

agentFrame ==
    <<cycleResults, ncyc, lockVars, nops, nonAgentAux, procVars,
      promptFile, promptTracked, promptIgnored>>

\* runClaudeCommand: spawn(command, args, {shell: true}); the 'error' event
\* rejects when the subprocess cannot be spawned
AgentSpawn(c) ==
    /\ At(c, "agent")
    /\ \/ /\ child' = [child EXCEPT ![c][cyc[c].attempt] = "running"]
          /\ ag' = [ag EXCEPT ![c].spawned = @ + 1]
          /\ Goto(c, "agent_run")
       \/ /\ AgentRejects(c, SpawnFailedMsg)
          /\ UNCHANGED child
    /\ UNCHANGED <<dirty, agentFrame>>

\* child.on('close'): exit code 0 resolves, any other rejects; the agent may
\* have changed the working tree
ChildExits(c) ==
    /\ At(c, "agent_run")
    /\ child[c][cyc[c].attempt] = "running"
    /\ child' = [child EXCEPT ![c][cyc[c].attempt] = "exited"]
    /\ dirty' \in {dirty, TRUE}
    /\ \/ /\ Goto(c, "verify")
          /\ ag' = [ag EXCEPT ![c].resolved = cyc[c].attempt]
       \/ AgentRejects(c, ExitedMsg("1"))
    /\ UNCHANGED agentFrame

\* the timeout fires: child.kill('SIGTERM'); reject(new Error('Claude Code
\* timed out')), without waiting for the subprocess to exit
AgentTimeout(c) ==
    /\ At(c, "agent_run")
    /\ child[c][cyc[c].attempt] = "running"
    /\ child' = [child EXCEPT ![c][cyc[c].attempt] = "signalled"]
    /\ AgentRejects(c, TimedOutMsg)
    /\ UNCHANGED <<dirty, agentFrame>>

\* a signalled subprocess exits; its 'close' event rejects a promise that is
\* already settled, which has no effect
SignalledChildExits(c, a) ==
    /\ c \in 1..MaxCycles /\ a \in 1..maxAttempts
    /\ child[c][a] = "signalled"
    /\ child' = [child EXCEPT ![c][a] = "exited"]
    /\ dirty' \in {dirty, TRUE}
    /\ UNCHANGED <<ag, cyc, result, agentFrame>>

TimerFiresAgent == TimerFires /\ ncyc < MaxAgentCycles

NextAgent ==
    \/ StartStep
    \/ TimerFiresAgent
    \/ \E c \in 1..MaxAgentCycles : StepsAroundAgent(c)
    \/ \E c \in 1..MaxAgentCycles : AgentSpawn(c)
    \/ \E c \in 1..MaxAgentCycles : ChildExits(c)
    \/ \E c \in 1..MaxAgentCycles : AgentTimeout(c)
    \/ \E c \in 1..MaxAgentCycles, a \in 1..maxAttempts : SignalledChildExits(c, a)

SpecAgent == Init /\ [][NextAgent]_vars

\* a step of runCycle c or of the subprocess it is waiting for: every
\* awaited call eventually returns or throws, the subprocess eventually
\* exits or the timeout fires
CycleProgress(c) ==
    StepsAroundAgent(c) \/ AgentSpawn(c) \/ ChildExits(c) \/ AgentTimeout(c)

SpecAgentLive ==
    SpecAgent /\ \A c \in 1..MaxAgentCycles : WF_vars(CycleProgress(c))

----------------------------------------------------------------------------
(* issues.js: findEligibleIssue, called by up to two overlapping cycles on
   the one exported IssueSelector *)

\* pr.head.ref.startsWith('auto/')
StartsWithAuto(ref) == Len(ref) >= 1 /\ ref[1] = "auto/"

\* the number of digit tokens of ref from position i on
RECURSIVE DigitRun(_, _)
DigitRun(ref, i) ==
    IF i <= Len(ref) /\ IsDigit(ref[i]) THEN 1 + DigitRun(ref, i + 1) ELSE 0

\* pr.head.ref.match(/^auto\/(\d+)-/): the digits captured, << >> for null
Match(ref) ==
    LET n == DigitRun(ref, 2) IN
    IF StartsWithAuto(ref) /\ n >= 1 /\ n + 2 <= Len(ref) /\ ref[n + 2] = "-"
    THEN SubSeq(ref, 2, n + 1)
    ELSE << >>

\* parseInt(match[1], 10)
RECURSIVE ParseDigits(_)
ParseDigits(d) ==
    IF Len(d) = 0 THEN 0
    ELSE 10 * ParseDigits(SubSeq(d, 1, Len(d) - 1)) + DigitVal[d[Len(d)]]

\* prIssueNumbers after the forEach over openPRs
PrIssueNumbers(prs) == {ParseDigits(Match(r)) : r \in {q \in prs : Match(q) # << >>}}

\* mutants of the filter: open pull requests / the session's set are ignored
MutPassesIgnoresPRs(n, prNums, processed) == n \notin processed

MutPassesIgnoresProcessed(n, prNums, processed) == n \notin prNums

\* the callback of issues.filter(...)
Passes(n, prNums, processed) == n \notin prNums /\ n \notin processed

\* const issues = await github.searchEligibleIssues()
Search(s) ==
    /\ sel[s].pc \in {"idle", "done"}
    /\ sel[s].calls < MaxSelectCalls
    /\ LET r == [NoSelect EXCEPT !.calls = sel[s].calls + 1] IN
       \/ \E l \in IssueLists :
             IF Len(l) = 0
             THEN sel' = [sel EXCEPT ![s] = [r EXCEPT !.pc = "done"]]
             ELSE sel' = [sel EXCEPT ![s] = [r EXCEPT !.pc = "prs", !.issues = l]]
       \/ sel' = [sel EXCEPT ![s] = [r EXCEPT !.pc = "done", !.threw = TRUE]]
    /\ UNCHANGED <<processedIssues, selections, nonSelVars>>

\* const openPRs = await github.getOpenPullRequests(), then without another
\* await: the filter, the choice of availableIssues[0] and
\* this.processedIssues.add(selectedIssue.number)
ListPRs(s) ==
    /\ sel[s].pc = "prs"
    /\ \/ /\ sel' = [sel EXCEPT ![s] = [@ EXCEPT !.pc = "done", !.threw = TRUE,
                                                 !.issues = << >>]]
          /\ UNCHANGED <<processedIssues, selections>>
       \/ \E open \in OpenPRSets :
            LET openPRs == {r \in open : StartsWithAuto(r)}
                prNums == PrIssueNumbers(openPRs)
                availableIssues ==
                    SelectSeq(sel[s].issues,
                              LAMBDA n : Passes(n, prNums, processedIssues))
            IN  IF Len(availableIssues) = 0
                THEN /\ sel' = [sel EXCEPT ![s] = [@ EXCEPT !.pc = "done",
                                                            !.issues = << >>]]
                     /\ UNCHANGED <<processedIssues, selections>>
                ELSE /\ sel' = [sel EXCEPT ![s] =
                                  [@ EXCEPT !.pc = "getIssue",
                                            !.prs = openPRs,
                                            !.selected = availableIssues[1]]]
                     /\ processedIssues' = processedIssues \cup {availableIssues[1]}
                     /\ selections' = Append(selections, availableIssues[1])
    /\ UNCHANGED nonSelVars

\* return await github.getIssue(selectedIssue.number)
GetIssue(s) ==
    /\ sel[s].pc = "getIssue"
    /\ \/ sel' = [sel EXCEPT ![s] = [@ EXCEPT !.pc = "done", !.issues = << >>,
                                              !.ret = sel[s].selected]]
       \/ sel' = [sel EXCEPT ![s] = [@ EXCEPT !.pc = "done", !.issues = << >>,
                                              !.threw = TRUE]]
    /\ UNCHANGED <<processedIssues, selections, nonSelVars>>

InitSelect == InitLock /\ file = Absent

NextSelect ==
    \/ \E s \in Selectors : Search(s)
    \/ \E s \in Selectors : ListPRs(s)
    \/ \E s \in Selectors : GetIssue(s)

SpecSelect == InitSelect /\ [][NextSelect]_vars

----------------------------------------------------------------------------
(* runner.js runCycle with the operations of git.js and pr.js and their
   effects on the working tree and the remote repository; cycles run one
   after the other.  ec.path tells where an exception lands: "outer" before
   the inner try, "inner" inside it, "recovery" in its catch block. *)

EAt(pc) == ec.pc = pc

\* the operation `op` is invoked
Invoked(r, op) == [r EXCEPT !.ops = @ \cup {op}]

\* the operation `op` is invoked and completes
Completed(r, op) == [r EXCEPT !.ops = @ \cup {op}, !.done = @ \cup {op}]

\* the operation `op` of the running cycle throws: into the recovery path
\* from inside the inner try, into the outer catch from anywhere else
\* mutant of the catch blocks: every exception takes the recovery path
MutFailsInAlwaysRecovers(cycle, op) ==
    ec' = [Invoked(cycle, op) EXCEPT !.path = "recovery", !.cerr = op,
                                     !.pc = "status"]

FailsIn(cycle, op) ==
    LET r == Invoked(cycle, op) IN
    IF cycle.path = "inner"
    THEN ec' = [r EXCEPT !.path = "recovery", !.cerr = op, !.pc = "status"]
    ELSE ec' = [r EXCEPT !.status = "ERROR", !.error = op, !.pc = "finally"]

Fails(op) == FailsIn(ec, op)

\* mutant of the early return: the cycle goes on after logging NO_ISSUES
MutAfterNoIssuesGoesOn == "sync"

\* return (inside the try block): control passes to the finally block
AfterNoIssues == "finally"

BeginCycle ==
    /\ EAt("idle")
    /\ ecount < MaxEffectCycles
    /\ ecount' = ecount + 1
    /\ ec' = [NoEffects EXCEPT !.pc = "select", !.n = ecount + 1]
    /\ UNCHANGED <<wt, hist, commands, nonEffVars>>

\* const issue = await issueSelector.findEligibleIssue(); if (!issue) {...}
FindIssue ==
    /\ EAt("select")
    /\ \/ /\ ec' = [Completed(ec, "select") EXCEPT !.status = "NO_ISSUES",
                                                   !.pc = AfterNoIssues]
          /\ hist' = Append(hist, [Completed(ec, "select") EXCEPT
                                      !.status = "NO_ISSUES"])
       \/ /\ \E i \in Issues :
               ec' = [Completed(ec, "select") EXCEPT !.issue = i, !.branch = i,
                                                     !.pc = "sync"]
          /\ UNCHANGED hist
       \/ /\ Fails("select")
          /\ UNCHANGED hist
    /\ UNCHANGED <<wt, ecount, commands, nonEffVars>>

\* an operation without an effect on the modelled state: it completes and
\* the cycle moves to `next`, or it throws
Step(pc, op, next) ==
    /\ EAt(pc)
    /\ \/ ec' = [Completed(ec, op) EXCEPT !.pc = next]
       \/ Fails(op)
    /\ UNCHANGED <<wt, hist, ecount, commands, nonEffVars>>

\* await gitOps.syncWithDefault()
SyncWithDefault == Step("sync", "sync", "branch")

\* await gitOps.createAndCheckoutBranch(branchName)
CreateBranch == Step("branch", "branch", "prompt")

\* await claudeHandler.createPromptFile(issue, repoContext); try {
CreatePromptFile ==
    /\ EAt("prompt")
    /\ \/ /\ ec' = [Completed(ec, "prompt") EXCEPT !.pc = "agent",
                                                   !.path = "inner"]
          /\ wt' = [wt EXCEPT !.prompt = TRUE, !.promptCommitted = FALSE]
       \/ /\ Fails("prompt")
          /\ UNCHANGED wt
    /\ UNCHANGED <<hist, ecount, commands, nonEffVars>>

\* await claudeHandler.invokeClaude(promptPath, 1): it returns, or throws
\* after both attempts failed; the agent may have changed the working tree
InvokeClaude ==
    /\ EAt("agent")
    /\ \E d \in {wt.dirty, TRUE} : wt' = [wt EXCEPT !.dirty = d]
    /\ LET r == [ec EXCEPT !.staleAtAgent = wt.stale] IN
       \/ ec' = [Completed(r, "agent") EXCEPT !.pc = "tests"]
       \/ FailsIn(r, "agent")
    /\ UNCHANGED <<hist, ecount, commands, nonEffVars>>

\* mutant of runTests / runBuild: the command may fail when not configured
MutCommandResultsAny(configured) == BOOLEAN

\* runTests() / runBuild(): true when the command is not configured or exits
\* with 0, false when it fails; they never throw
CommandResults(configured) == IF configured THEN BOOLEAN ELSE {TRUE}

\* const testsPass = await gitOps.runTests()
RunTests ==
    /\ EAt("tests")
    /\ \E pass \in CommandResults(commands.test) :
         ec' = [Completed(ec, "tests") EXCEPT !.testsPass = pass, !.pc = "build"]
    /\ UNCHANGED <<wt, hist, ecount, commands, nonEffVars>>

\* const buildPass = await gitOps.runBuild();
\* if (!testsPass || !buildPass) throw new Error('Tests or build failed ...')
RunBuild ==
    /\ EAt("build")
    /\ \E buildPass \in CommandResults(commands.build) :
         LET r == [Completed(ec, "build") EXCEPT !.buildPass = buildPass] IN
         IF ec.testsPass /\ buildPass
         THEN ec' = [r EXCEPT !.pc = "status"]
         ELSE ec' = [r EXCEPT !.path = "recovery", !.cerr = "verify",
                              !.pc = "status"]
    /\ UNCHANGED <<wt, hist, ecount, commands, nonEffVars>>

\* mutant of the recovery path: the error is not recorded
MutRecoveredErrorNull(cycle) == "none"

\* result.error = claudeError.message
RecoveredError(cycle) == cycle.cerr

\* git status --porcelain prints something: uncommitted changes of the
\* agent, or the prompt file unless ignored or committed unchanged
Uncommitted == wt.dirty \/ (wt.prompt /\ ~wt.ignored /\ ~wt.promptCommitted)

\* mutant of hasChanges: it reports changes whatever git status prints
MutGitStatusAlwaysChanges(actual) == {TRUE}

\* gitOps.hasChanges(): stdout.length > 0, and false when git fails
GitStatus(actual) == {actual, FALSE}

\* if (await gitOps.hasChanges()) {...} else {...}, in the try block and in
\* the catch block
CheckChanges ==
    /\ EAt("status")
    /\ \E changes \in GitStatus(Uncommitted) :
         LET r == [Completed(ec, "status") EXCEPT
                      !.hadChanges = IF ec.path = "inner"
                                     THEN (IF Uncommitted THEN "yes" ELSE "no")
                                     ELSE @,
                      !.recChanges = IF ec.path = "recovery"
                                     THEN (IF changes THEN "yes" ELSE "no")
                                     ELSE @]
         IN  IF changes
             THEN ec' = [r EXCEPT !.pc = "add"]
             ELSE IF ec.path = "inner"
             THEN ec' = [r EXCEPT !.status = "NO_CHANGES", !.pc = "finally"]
             ELSE ec' = [r EXCEPT !.status = "FAILED", !.error = RecoveredError(ec),
                                  !.pc = "finally"]
    /\ UNCHANGED <<wt, hist, ecount, commands, nonEffVars>>

\* await gitOps.addAllChanges(): git add .
AddAllChanges ==
    /\ EAt("add")
    /\ \/ ec' = [Completed(ec, "add") EXCEPT
                    !.pc = "commit",
                    !.promptAtAdd = IF wt.prompt THEN "present" ELSE "absent"]
       \/ Fails("add")
    /\ UNCHANGED <<wt, hist, ecount, commands, nonEffVars>>

\* await gitOps.createCommit(message): the staged tree is committed
CreateCommit ==
    /\ EAt("commit")
    /\ \/ /\ ec' = [Completed(ec, "commit") EXCEPT
                      !.pc = "push",
                      !.promptInCommit = @ \/ (wt.prompt /\ ~wt.ignored),
                      !.staleInCommit = @ \/ wt.stale]
          /\ wt' = [wt EXCEPT !.dirty = FALSE, !.stale = FALSE,
                              !.promptCommitted = @ \/ (wt.prompt /\ ~wt.ignored)]
       \/ /\ Fails("commit")
          /\ UNCHANGED wt
    /\ UNCHANGED <<hist, ecount, commands, nonEffVars>>

\* await gitOps.pushBranch(branchName)
PushBranch == Step("push", "push", "prCreate")

\* github.createPullRequest(title, body, branchName, defaultBranch):
\* pulls.create is called with owner, repo, title, body, head and base, so
\* the pull request is created ready for review; createDraftPR prefixes the
\* title with [DRAFT] and appends error.message to the body
CreatePR ==
    /\ EAt("prCreate")
    /\ \/ ec' = [Completed(ec, "prCreate") EXCEPT
                    !.pc = "prLabel",
                    !.pr = [exists |-> TRUE, number |-> 100 + ec.n,
                            draft |-> FALSE,
                            titleDraft |-> (ec.path = "recovery"),
                            bodyError |-> IF ec.path = "recovery" THEN ec.cerr
                                          ELSE "none",
                            labels |-> {}]]
       \/ Fails("prCreate")
    /\ UNCHANGED <<wt, hist, ecount, commands, nonEffVars>>

\* mutant of the labels: the draft label is added on both paths
MutLabelsForAlwaysDraft(path) == RequiredLabels \cup {"draft"}

\* the labels passed to github.addLabelsToIssue
LabelsFor(path) ==
    IF path = "recovery" THEN RequiredLabels \cup {"draft"} ELSE RequiredLabels

\* await github.addLabelsToIssue(pr.number, [...]); return {number, ...};
\* result.pr_number = pr.number; result.status = 'SUCCESS' / 'PARTIAL'
LabelPR ==
    /\ EAt("prLabel")
    /\ \/ LET r == [Completed(ec, "prLabel") EXCEPT
                       !.pr.labels = LabelsFor(ec.path),
                       !.pr_number = ec.pr.number, !.pc = "finally"]
          IN  IF ec.path = "recovery"
              THEN ec' = [r EXCEPT !.status = "PARTIAL", !.error = RecoveredError(ec)]
              ELSE ec' = [r EXCEPT !.status = "SUCCESS"]
       \/ Fails("prLabel")
    /\ UNCHANGED <<wt, hist, ecount, commands, nonEffVars>>

\* finally { await claudeHandler.cleanup(); ...
FinallyCleanup ==
    /\ EAt("finally")
    /\ ec' = [Completed(ec, "cleanup") EXCEPT !.pc = "log"]
    /\ wt' = [wt EXCEPT !.prompt = FALSE]
    /\ UNCHANGED <<hist, ecount, commands, nonEffVars>>

\* ... this.logCycleResult(result) }
FinallyLog ==
    /\ EAt("log")
    /\ hist' = Append(hist, ec)
    /\ ec' = NoEffects
    /\ wt' = [wt EXCEPT !.stale = wt.dirty]   \* what this cycle leaves behind
    /\ UNCHANGED <<ecount, commands, nonEffVars>>

\* this.cycleResults.filter(r => r.status === status).length
CountStatus(status) == Cardinality({i \in 1..Len(hist) : hist[i].status = status})

\* getStats(): the counters
getStats ==
    [total_cycles |-> Len(hist),
     successful |-> CountStatus("SUCCESS"),
     partial |-> CountStatus("PARTIAL"),
     failed |-> CountStatus("FAILED"),
     no_issues |-> CountStatus("NO_ISSUES"),
     errors |-> CountStatus("ERROR")]

InitEffects ==
    /\ InitLockVars /\ file = Absent
    /\ InitRunnerVars /\ promptIgnored = FALSE
    /\ InitRetryVars /\ InitAgentVars /\ InitSelVars /\ InitEffVars
    /\ bn = NoBranch

NextEffects ==
    \/ BeginCycle
    \/ FindIssue
    \/ SyncWithDefault
    \/ CreateBranch
    \/ CreatePromptFile
    \/ InvokeClaude
    \/ RunTests
    \/ RunBuild
    \/ CheckChanges
    \/ AddAllChanges
    \/ CreateCommit
    \/ PushBranch
    \/ CreatePR
    \/ LabelPR
    \/ FinallyCleanup
    \/ FinallyLog

SpecEffects == InitEffects /\ [][NextEffects]_vars

----------------------------------------------------------------------------
(* issues.js generateBranchName, and the pattern of findEligibleIssue applied
   to its result *)

\* .toLowerCase()
ToLowerCase(s) ==
    [i \in 1..Len(s) |-> IF s[i] \in DOMAIN LowerOf THEN LowerOf[s[i]] ELSE s[i]]

\* [a-z0-9\s-]
IsSlugChar(ch) == ch = "a" \/ IsDigit(ch) \/ ch \in WhiteSpace \/ ch = "-"

\* .replace(/[^a-z0-9\s-]/g, '')
RemoveSpecial(s) == SelectSeq(s, IsSlugChar)

\* .replace(/\s+/g, '-'): every maximal run of white space becomes one hyphen
RECURSIVE SpacesToHyphen(_)
SpacesToHyphen(s) ==
    IF Len(s) = 0 THEN << >>
    ELSE IF Head(s) \notin WhiteSpace THEN <<Head(s)>> \o SpacesToHyphen(Tail(s))
    ELSE IF Len(s) >= 2 /\ s[2] \in WhiteSpace THEN SpacesToHyphen(Tail(s))
    ELSE <<"-">> \o SpacesToHyphen(Tail(s))

\* .substring(0, 40)
Truncate(s) == SubSeq(s, 1, IF Len(s) < SlugLimit THEN Len(s) ELSE SlugLimit)

\* mutant of the last replace: trailing hyphens are kept
MutKeepTrailingHyphens(s) == s

\* .replace(/-+$/, '')
RECURSIVE StripTrailingHyphens(_)
StripTrailingHyphens(s) ==
    IF Len(s) > 0 /\ s[Len(s)] = "-"
    THEN StripTrailingHyphens(SubSeq(s, 1, Len(s) - 1))
    ELSE s

\* const slug = issue.title.toLowerCase().replace(...)...
Slug(title) ==
    StripTrailingHyphens(Truncate(SpacesToHyphen(RemoveSpecial(ToLowerCase(title)))))

\* `${issue.number}`: the decimal digits of a positive integer
RECURSIVE NumberToString(_)
NumberToString(n) ==
    IF n < 10 THEN <<DigitChars[n + 1]>>
    ELSE NumberToString(n \div 10) \o <<DigitChars[(n % 10) + 1]>>

\* return `auto/${issue.number}-${slug}`
BranchNameOf(n, slug) == <<"auto/">> \o NumberToString(n) \o <<"-">> \o slug

\* an issue with some number and some title
ChooseIssue ==
    /\ bn.pc = "issue"
    /\ \E n \in 1..MaxBranchIssue, t \in Titles :
         bn' = [bn EXCEPT !.pc = "generate", !.n = n, !.title = t]
    /\ UNCHANGED nonBranchVars

\* issueSelector.generateBranchName(issue)
GenerateBranchName ==
    /\ bn.pc = "generate"
    /\ bn' = [bn EXCEPT !.pc = "match", !.slug = Slug(bn.title),
                        !.name = BranchNameOf(bn.n, Slug(bn.title))]
    /\ UNCHANGED nonBranchVars

\* the branch is the head of an open pull request:
\* pr.head.ref.match(/^auto\/(\d+)-/); parseInt(match[1], 10)
RecogniseBranch ==
    /\ bn.pc = "match"
    /\ bn' = [bn EXCEPT !.pc = "done", !.match = Match(bn.name),
                        !.number = ParseDigits(Match(bn.name))]
    /\ UNCHANGED nonBranchVars

InitBranch ==
    /\ InitLockVars /\ file = Absent
    /\ InitRunnerVars /\ promptIgnored = FALSE
    /\ InitAuxVars

NextBranch ==
    \/ ChooseIssue
    \/ GenerateBranchName
    \/ RecogniseBranch

SpecBranch == InitBranch /\ [][NextBranch]_vars

----------------------------------------------------------------------------
(* Claims about the orchestrator, checked under Spec and SpecShutdown *)

Finished(c) == cyc[c].pc = "done"

\* C1: a new runCycle does not begin until every earlier runCycle has
\* finalized its outcome and appended its result: cycles never overlap.
C1_CyclesNeverOverlap ==
    \A c \in 1..MaxCycles :
        InFlight(c) => \A d \in 1..(c - 1) : Finished(d)

\* C3: when SIGINT or SIGTERM arrives while a cycle is in flight, then until
\* that cycle has appended its result the process does not exit and does not
\* release the lock.
C3_ShutdownWaitsForCycle ==
    \A c \in sigAt :
        InFlight(c) => exit = "running" /\ lockAcquired["p1"]

\* C4: every result in the history has an outcome in {NO_ISSUES, SUCCESS,
\* PARTIAL, FAILED, NO_CHANGES, ERROR}; none carries the initial 'unknown'.
C4_OutcomeSetBeforeRecorded ==
    \A i \in 1..Len(cycleResults) :
        result[cycleResults[i]].status \in Outcomes

\* C4 witness: the history holds the result of a cycle that left through the
\* outer catch from inside the recovery path, and one of a cycle whose agent
\* failed twice without leaving changes.
C4_Witness ==
    /\ \E i \in 1..Len(cycleResults) :
          /\ result[cycleResults[i]].status = "ERROR"
          /\ result[cycleResults[i]].error = "publish"
    /\ \E i \in 1..Len(cycleResults) :
          /\ result[cycleResults[i]].status = "FAILED"
          /\ result[cycleResults[i]].error = "agent"

\* C5: exactly one result is appended per executed cycle: whenever no cycle
\* is in flight, the history is as long as the number of cycles run.
C5_OneResultPerCycle ==
    (\A c \in 1..MaxCycles : ~InFlight(c)) => Len(cycleResults) = ncyc

----------------------------------------------------------------------------
(* Claims about the lock, checked under SpecLock *)

\* an acquire()/release() call of context c has returned or thrown
Returned(c, op) == lastOp[c].op = op /\ lpc[c] = "idle"

Other(p) == CHOOSE q \in Procs : q # p

\* C2: for every interleaving of the file steps of acquire() run by two live
\* processes on one working directory, at most one of them ends with
\* lockAcquired = true.
C2_MutualExclusion ==
    ~(lockAcquired["p1"] /\ lockAcquired["p2"])

C7_StaleLockReclaimed ==
    \A p \in Procs :
        ( /\ Returned(p, "acquire")
          /\ lastOp[p].fileAtCall # Absent
          /\ ParseInt(lastOp[p].fileAtCall) \notin AlivePids
          /\ nops[Other(p)] = 0
          /\ ~lastOp[p].fault )
        => /\ lastOp[p].result = "ok"
           /\ lockAcquired[p]
           /\ file = ToStr(PidOf[p])
           /\ ParseInt(file) = PidOf[p]

\* C7 witness: p1 alone has reclaimed the stale lock.
C7_Witness ==
    /\ Returned("p1", "acquire")
    /\ lastOp["p1"].fileAtCall = ToStr(7)
    /\ lastOp["p1"].deleted = ToStr(7)
    /\ nops["p2"] = 0
    /\ lastOp["p1"].result = "ok"
    /\ file = ToStr(PidOf["p1"])

\* C8: release() never raises, whatever the state of the lock file and also
\* when called twice after an acquisition; called on a handle that does not
\* hold the lock it returns at once and performs no file operation.
C8_ReleaseIdempotent ==
    \A p \in Procs :
        lastOp[p].op = "release"
        => /\ lastOp[p].result \in {"running", "ok"}
           /\ lastOp[p].err = "none"
           /\ ~lastOp[p].held
              => /\ lpc[p] = "idle"
                 /\ lastOp[p].result = "ok"
                 /\ ~lastOp[p].touched
                 /\ lastOp[p].deleted = Absent

\* C8 witness: a second release() right after the release() that removed the
\* record this process had written on acquisition.
C8_Witness ==
    \E p \in Procs :
        /\ Returned(p, "release")
        /\ lastOp[p].prevOp = "release"
        /\ ~lastOp[p].held
        /\ lastOp[p].result = "ok"
        /\ lastOp[p].prevDeleted = ToStr(PidOf[p])

\* C9: a release() by process P never deletes a lock file whose content is
\* another live process's PID.
C9_ReleaseOnlyOwnRecord ==
    \A p \in Procs :
        ( lastOp[p].op = "release" /\ lastOp[p].deleted # Absent )
        => ParseInt(lastOp[p].deleted) \notin (AlivePids \ {PidOf[p]})

\* C10: every non-ENOENT I/O error raised by a file operation of
\* acquire() or release() reaches the caller as an error.
C10_IOErrorsPropagate ==
    \A p \in Procs :
        ( lastOp[p].fault /\ lpc[p] = "idle" ) => lastOp[p].result = "threw"

----------------------------------------------------------------------------
(* Claims about the remote API gateway, checked under SpecRetry *)

\* C11: when every attempt of a withRetry call fails with a generic error,
\* the operation is invoked exactly maxRetries times and the call raises the
\* error object of the last attempt; a call that returns the result of
\* attempt k has invoked the operation exactly k times.
C11_GenericRetryCap ==
    \A k \in Callers :
        LET r == wr[k] IN
        /\ ~r.throttled => r.nInv <= maxRetries
        /\ ( r.pc = "done" /\ ~r.throttled /\ ~(r.out = "returned" /\ r.value > 0) )
             => /\ r.out = "threw"
                /\ r.nInv = maxRetries
                /\ r.thrown = r.lastErr
                /\ r.thrown.attempt = maxRetries
        /\ ( r.pc = "done" /\ r.out = "returned" /\ r.value > 0 )
             => r.nInv = r.value

C11_Witness ==
    \E k \in Callers :
        /\ wr[k].pc = "done" /\ wr[k].out = "threw"
        /\ ~wr[k].throttled /\ wr[k].nInv = maxRetries

\* C12: a withRetry call never returns normally without the operation having
\* succeeded: when all attempts failed, throttled or not, it raises.
C12_ThrottleCapRaises ==
    \A k \in Callers :
        ( wr[k].pc = "done" /\ wr[k].out = "returned" ) => wr[k].value > 0

\* C13: the wait after a throttled attempt is the retry-after value in
\* seconds when the response supplies one and 2^attempt seconds otherwise;
\* after a generic failure on attempt k < maxRetries it is 2^k seconds; it is
\* never shorter than a supplied retry-after.
C13_BackoffSchedule ==
    \A k \in Callers :
        LET r == wr[k]
            e == r.lastErr
        IN  r.pc = "backoff" =>
              /\ ( IsThrottle(e) /\ e.supplied ) => r.delay = e.secs * 1000
              /\ ( IsThrottle(e) /\ ~e.supplied )
                    => r.delay = Pow2(r.attempt) * 1000
              /\ ~IsThrottle(e)
                    => r.attempt < maxRetries /\ r.delay = Pow2(r.attempt) * 1000
              /\ e.supplied => r.delay >= e.secs * 1000

C13_Witness ==
    \E k \in Callers :
        /\ wr[k].pc = "backoff" /\ wr[k].lastErr.supplied
        /\ wr[k].lastErr.secs = 0 /\ wr[k].delay = 0 /\ wr[k].attempt = 2

\* C14: any two invocations of a remote operation through withRetry start at
\* least minDelayMs apart, whichever callers issue them.
C14_MinSpacing == minGap >= minDelayMs

----------------------------------------------------------------------------
(* Claims about the agent invoker, checked under SpecAgent *)

\* C15: invokeClaude(promptPath, 1) runs the agent subprocess at most twice,
\* the second time only after the first attempt failed; it returns as soon as
\* one attempt exits with status zero; when both attempts fail it raises an
\* error whose message contains the message of the second attempt's failure.
C15_AgentAttempts ==
    \A c \in 1..MaxCycles :
        LET a == ag[c] IN
        /\ a.spawned <= maxAttempts
        /\ a.spawned = maxAttempts => Len(a.failed) >= 1
        /\ a.resolved > 0
             => /\ a.spawned <= a.resolved
                /\ Len(a.failed) = a.resolved - 1
                /\ a.thrown = << >>
        /\ a.thrown # << >> => Len(a.failed) = maxAttempts
        /\ Len(a.failed) = maxAttempts
             => Contains(a.thrown, a.failed[maxAttempts])

C15_Witness ==
    \E c \in 1..MaxCycles :
        /\ Len(ag[c].failed) = maxAttempts
        /\ ag[c].failed[1] # ag[c].failed[maxAttempts]
        /\ ag[c].spawned = maxAttempts
        /\ ag[c].thrown # << >>

\* the retry budget of cycle c ended with a timed-out attempt
TimedOutLast(c) ==
    /\ Len(ag[c].failed) = maxAttempts
    /\ ag[c].failed[maxAttempts] = TimedOutMsg

C17_OneAgentAtATime ==
    /\ Cardinality(AliveChildren) <= 1
    /\ \A c \in 1..MaxCycles :
          cyc[c].pc \in {"verify", "status", "commit", "r_status", "r_commit"}
            => AliveChildren = {}

----------------------------------------------------------------------------
(* Claims about the issue selector, checked under SpecSelect *)

\* the open pull request with head branch ref claims issue n: ref is
\* auto/<number>-... and the number is n
Claims(ref, n) ==
    \E k \in 1..Len(ref) :
        /\ k + 2 <= Len(ref)
        /\ ref[1] = "auto/"
        /\ \A i \in 2..(k + 1) : IsDigit(ref[i])
        /\ ref[k + 2] = "-"
        /\ ParseDigits(SubSeq(ref, 2, k + 1)) = n

\* C18: findEligibleIssue never selects or returns an issue whose number is
\* claimed by an open pull request, among those listed in the same call,
\* whose head branch matches auto/<number>-...
C18_NoIssueWithOpenPr ==
    \A s \in Selectors :
        /\ sel[s].selected > 0
             => ~ \E r \in sel[s].prs : Claims(r, sel[s].selected)
        /\ sel[s].ret > 0 => sel[s].ret = sel[s].selected

C18_Witness ==
    \E s \in Selectors :
        /\ sel[s].pc = "getIssue"
        /\ sel[s].issues = <<1, 2>>
        /\ sel[s].selected = 2
        /\ 1 \notin processedIssues
        /\ <<"auto/", "0", "1", "-">> \in sel[s].prs

\* C19: no issue number is selected twice in one process lifetime, by later
\* or by overlapping calls; a selected number is marked attempted at once,
\* before the detail fetch and also when the detail fetch fails.
C19_NoIssueSelectedTwice ==
    /\ \A i, j \in 1..Len(selections) : selections[i] = selections[j] => i = j
    /\ \A i \in 1..Len(selections) : selections[i] \in processedIssues
    /\ \A s \in Selectors : sel[s].selected > 0 => sel[s].selected \in processedIssues

C19_Witness ==
    \E s, t \in Selectors :
        /\ sel[t].pc = "done" /\ sel[t].threw /\ sel[t].selected = 1
        /\ sel[s].pc = "getIssue"
        /\ sel[s].issues = <<1, 2>> /\ sel[s].prs = {}
        /\ sel[s].selected = 2
        /\ selections = <<1, 2>>

\* C20: an issue is selected only when no open pull request with an auto/
\* head branch exists; while one is open the call selects nothing.
C20_SinglePrPolicy ==
    \A s \in Selectors : sel[s].selected > 0 => sel[s].prs = {}

----------------------------------------------------------------------------
(* Claims about the effects of one cycle (SpecEffects) *)

\* the running cycle and the cycles logged so far
EffectCycles ==
    (IF ec.pc = "idle" THEN {} ELSE {ec}) \cup {hist[i] : i \in 1..Len(hist)}

PublishingOps == {"add", "commit", "push", "prCreate", "prLabel"}

\* C21: a cycle in which the selector returned no issue ends NO_ISSUES and
\* has invoked no sync, branch creation, agent, commit, push or pull-request
\* creation; its issue, branch and pull-request identifier are null.
C21_NoIssuesDoesNothing ==
    \A r \in EffectCycles :
        r.status = "NO_ISSUES" =>
            /\ r.ops \subseteq {"select", "cleanup"}
            /\ r.issue = 0 /\ r.branch = 0 /\ r.pr_number = 0
            /\ ~r.pr.exists

C21_Witness ==
    \E i \in 1..Len(hist) :
        /\ hist[i].status = "NO_ISSUES"
        /\ hist[i].done = {"select", "cleanup"}

C23_PartialPublishesDraft ==
    \A r \in EffectCycles :
        (r.cerr = "agent" /\ PublishingOps \subseteq r.done) =>
            /\ r.status = "PARTIAL"
            /\ r.pr_number = r.pr.number /\ r.pr_number # 0
            /\ r.error = r.cerr
            /\ r.pr.bodyError = r.cerr
            /\ r.pr.draft

\* C24: when the agent succeeded, tests and build passed and the working
\* tree had no uncommitted changes, the cycle is NO_CHANGES and has invoked
\* no add, commit, push or pull-request creation.
C24_NoChangesPublishesNothing ==
    \A r \in EffectCycles :
        (r.path = "inner" /\ r.hadChanges = "no") =>
            /\ r.status = "NO_CHANGES"
            /\ r.ops \cap PublishingOps = {}
            /\ ~r.pr.exists /\ r.pr_number = 0

C24_Witness ==
    \E i \in 1..Len(hist) :
        /\ hist[i].status = "NO_CHANGES"
        /\ hist[i].hadChanges = "no"
        /\ {"agent", "tests", "build", "status"} \subseteq hist[i].done

\* C25: every cycle that ends FAILED has pushed nothing and published no
\* pull request, and has its error recorded.
C25_FailedPublishedNothing ==
    \A r \in EffectCycles :
        r.status = "FAILED" =>
            /\ "push" \notin r.done
            /\ ~r.pr.exists
            /\ r.error # "none"

\* C29: in every cycle that made a commit, issue_prompt.md had been removed
\* before git add ran and is not part of the committed tree.
C29_PromptRemovedBeforeCommit ==
    \A r \in EffectCycles :
        "commit" \in r.done =>
            /\ r.promptAtAdd = "absent"
            /\ ~r.promptInCommit

\* C33: a failed test or build command after a successful agent run takes
\* the recovery path of an agent failure: FAILED with the error recorded and
\* nothing published when git reports no changes, PARTIAL with pull request
\* and error recorded when it reports changes and they are published; a
\* command that is not configured is never the failing one.
C33_VerificationSharesRecovery ==
    \A r \in EffectCycles :
        /\ r.cerr = "verify" =>
              /\ "agent" \in r.done
              /\ \/ commands.test /\ ~r.testsPass
                 \/ commands.build /\ ~r.buildPass
        /\ r.cerr \in {"verify", "agent"} =>
              /\ r.recChanges = "no" =>
                    /\ r.status = "FAILED" /\ r.error = r.cerr
                    /\ r.ops \cap PublishingOps = {}
              /\ (r.recChanges = "yes" /\ PublishingOps \subseteq r.done) =>
                    /\ r.status = "PARTIAL" /\ r.error = r.cerr
                    /\ r.pr_number = r.pr.number /\ r.pr_number # 0

C33_Witness ==
    /\ ~commands.test /\ commands.build
    /\ Len(hist) = 2
    /\ hist[1].cerr = "verify" /\ hist[1].status = "PARTIAL"
    /\ hist[1].testsPass /\ ~hist[1].buildPass
    /\ hist[2].cerr = "verify" /\ hist[2].status = "FAILED"

\* C34: a cycle in which syncWithDefault or createAndCheckoutBranch threw
\* ends ERROR with the message recorded; it has not created the prompt,
\* invoked the agent, committed, pushed or published anything.
C34_GitSetupFailureIsError ==
    \A r \in EffectCycles :
        (r.ops \ r.done) \cap {"sync", "branch"} # {} =>
            /\ r.status = "ERROR"
            /\ r.error \in {"sync", "branch"}
            /\ r.ops \cap ({"prompt", "agent", "tests", "build"} \cup PublishingOps) = {}
            /\ ~r.pr.exists

C34_Witness ==
    \E i \in 1..Len(hist) :
        /\ hist[i].status = "ERROR" /\ hist[i].error = "branch"
        /\ hist[i].done = {"select", "sync", "cleanup"}
        /\ wt.dirty

\* C37: in every logged result the fields agree with the outcome.
C37_FieldsAgreeWithOutcome ==
    \A i \in 1..Len(hist) :
        LET r == hist[i] IN
        /\ r.status \in Outcomes
        /\ r.status = "SUCCESS" => r.pr_number # 0 /\ r.error = "none"
        /\ r.status = "PARTIAL" => r.pr_number # 0 /\ r.error # "none"
        /\ r.status = "FAILED" => r.pr_number = 0 /\ r.error # "none"
        /\ r.status = "NO_CHANGES" => r.pr_number = 0 /\ r.error = "none"
        /\ r.status = "NO_ISSUES" =>
              r.issue = 0 /\ r.branch = 0 /\ r.pr_number = 0 /\ r.error = "none"
        /\ r.status = "ERROR" => r.error # "none"
        /\ (r.branch # 0) <=> (r.issue # 0)

C37_Witness ==
    /\ Len(hist) = 2
    /\ hist[1].status = "PARTIAL" /\ hist[1].error = "agent"
    /\ hist[2].status = "FAILED" /\ hist[2].error = "push" /\ hist[2].issue # 0

\* C38: every cycle in which a pull request was created records its number
\* and ends SUCCESS or PARTIAL.
C38_CreatedPrIsRecorded ==
    \A i \in 1..Len(hist) :
        hist[i].pr.exists =>
            /\ hist[i].pr_number = hist[i].pr.number
            /\ hist[i].status \in {"SUCCESS", "PARTIAL"}

\* C39: when the agent is invoked the working tree holds no uncommitted
\* changes of an earlier cycle, and no commit contains such changes.
C39_NoLeftoverChanges ==
    \A r \in EffectCycles :
        /\ "agent" \in r.ops => ~r.staleAtAgent
        /\ "commit" \in r.done => ~r.staleInCommit

\* C40: between cycles, total_cycles of getStats is the number of cycles
\* executed and the outcome counters sum to total_cycles.
C40_StatsPartitionHistory ==
    ec.pc = "idle" =>
        /\ getStats.total_cycles = ecount
        /\ getStats.successful + getStats.partial + getStats.failed
              + getStats.no_issues + getStats.errors = getStats.total_cycles

----------------------------------------------------------------------------
(* Claims about the process: polling, fatal exits, shutdown *)

\* C26: runCycle never raises to its caller: every finished cycle has a
\* final outcome and the process is still running; while no shutdown is
\* requested the timer stays armed after cycles of any outcome and its next
\* firing starts a new cycle.
C26_PollingSurvivesEveryOutcome ==
    /\ \A c \in 1..MaxCycles : Finished(c) => result[c].status \in Outcomes
    /\ ncyc > 0 => Alive
    /\ mpc = "running" => timer /\ isRunning
    /\ (mpc = "running" /\ ncyc < MaxCycles) => ENABLED TimerFires

C26_Witness ==
    /\ Finished(1) /\ result[1].status = "ERROR"
    /\ Finished(2) /\ result[2].status = "FAILED"
    /\ ncyc = 3 /\ InFlight(3)

\* C27: when the process exits with a failure code (failed lock acquisition
\* in start(), an error reaching main, an uncaught exception or unhandled
\* rejection) or exits after SIGTERM, the final statistics have been emitted.
C27_StatsBeforeFatalExit ==
    (exit = "exit1" \/ (exit = "exit0" /\ sig = "SIGTERM")) => StatsEmitted

\* C28: after a shutdown signal received while no cycle was in flight, no
\* cycle is in flight at any later moment: no new cycle starts.
C28_NoCycleAfterIdleShutdown ==
    (sig # "none" /\ sigAt = {}) => \A c \in 1..MaxShutdownCycles : ~InFlight(c)

----------------------------------------------------------------------------
(* Claims about branch names (SpecBranch) *)

\* C30: for every issue number n and every title the name generateBranchName
\* yields is matched by ^auto/(\d+)- and the number extracted is n; the slug
\* has at most 40 characters and does not end in a hyphen.
C30_BranchNameRecognised ==
    /\ bn.pc \in {"match", "done"} =>
          /\ Len(bn.slug) <= SlugLimit
          /\ Len(bn.slug) > 0 => bn.slug[Len(bn.slug)] # "-"
          /\ bn.name = <<"auto/">> \o NumberToString(bn.n) \o <<"-">> \o bn.slug
    /\ bn.pc = "done" =>
          /\ bn.match # << >>
          /\ bn.number = bn.n

C30_Witness ==
    /\ bn.pc = "done"
    /\ bn.n = 10
    /\ Len(bn.title) > SlugLimit
    /\ bn.title[1] = " " /\ bn.title[Len(bn.title) - 1] = " "
    /\ bn.slug = <<"-">> \o Repeat("a", SlugLimit - 2)
    /\ bn.number = 10

----------------------------------------------------------------------------
(* Claims about the history of results *)

\* C31: no result is appended to cycleResults before the cleanup of the
\* cycle has run: every appended result carries the duration measured after
\* cleanup.
C31_CleanupBeforeAppend ==
    \A i \in 1..Len(cycleResults) : result[cycleResults[i]].measured

\* C32: a result object that is in cycleResults is not changed by any later
\* step.
C32_AppendedResultFrozen ==
    [][\A i \in 1..Len(cycleResults) :
          result'[cycleResults[i]] = result[cycleResults[i]]]_vars

----------------------------------------------------------------------------
(* Claims about the lock and the cycles *)

\* C35: while a cycle is in flight the process holds the lock: the lock file
\* exists with the PID of the process and its lock object says acquired.
C35_LockHeldDuringCycle ==
    \A c \in 1..MaxShutdownCycles :
        (Alive /\ InFlight(c)) =>
            /\ file = ToStr(PidOf["p1"])
            /\ lockAcquired["p1"]

\* C36: every cycle that starts eventually reaches the end of its finally
\* block with its result appended to cycleResults.
C36_EveryCycleFinalizes ==
    \A c \in 1..MaxAgentCycles :
        InFlight(c) ~> (Finished(c) /\ \E i \in 1..Len(cycleResults) : cycleResults[i] = c)

C36_Witness ==
    /\ Finished(2) /\ result[2].status = "PARTIAL"
    /\ Len(ag[2].failed) = maxAttempts
    /\ cycleResults = <<1, 2>>

=============================================================================
